---- MODULE Spec2Model ----
(***************************************************************************)
(* Window-procedure registry, global dispatch trampoline and message loop  *)
(* of win32utils (src/window.go).                                          *)
(*                                                                         *)
(* The registry wndProcByHWND is a Go map guarded by the sync.RWMutex      *)
(* wndProcMu.  Every thread runs registry calls (setWndProc,               *)
(* deleteWndProc, getWndProc) one lock step at a time; the UI thread runs  *)
(* globalWndProc, whose lookup and cleanup are such registry calls and     *)
(* whose callback runs with no lock held.  MessageLoop pulls messages off  *)
(* the thread's queue and dispatches them through the trampoline.          *)
(***************************************************************************)
EXTENDS Integers, Sequences, FiniteSets, TLC

\* ---------------------------------------------------------------- bounds
NumHandles == 2
NumProcs == 2
NumThreads == 2
MaxQueue == 2
MaxPosts == 3
MaxCbCalls == 1

\* ------------------------------------------------------ program constants
WM_DESTROY == 2
WM_NCDESTROY == 130
WM_CLOSE == 16
WM_COMMAND == 273
WM_SETTEXT == 12
WM_USER == 1024
IDOK == 1
IDCANCEL == 2
\* The modal dialog's timeout, in milliseconds of GetTickCount.
timeoutMs == 30000
\* The first id a PopupMenu hands out.
FirstMenuID == 1000

\* A nil WndProc; the map never stores it (setWndProc deletes instead).
NilProc == 0
\* The UI thread owns the message queue and runs every dispatch.
UI == 0
\* No thread: the value of the writer slot of a free lock.
NoThread == -1

Handles == 1..NumHandles
Procs == 1..NumProcs
Workers == 1..NumThreads
Threads == {UI} \union Workers

\* The calls of the trampoline's test: (msg, wParam, lParam).
Inputs == {<<WM_USER, 1, 2>>, <<WM_NCDESTROY, 0, 0>>}
\* What DefWindowProcW may answer: the OS decides.
DefResults == {0, 1}

VARIABLES
    reg,     \* wndProcByHWND: a function whose domain is the set of keys
    muW,     \* wndProcMu: the thread that called Lock and has not unlocked
    muR,     \* wndProcMu: the threads holding a read lock
    call,    \* per thread: the registry call it is in
    ui,      \* the UI thread's globalWndProc activation
    hist,    \* per handle: what the last returned write was called to store
    queue,   \* the UI thread's message queue: the posted messages, oldest first
    quit,    \* the thread's pending quit request, set by PostQuitMessage
    posted,  \* how many messages have been posted to the queue so far
    loop,    \* the activation of MessageLoop
    dreg,    \* dialogWndProcs: the dialog procedures by handle
    dlg,     \* the activation of TwoTextInputDialog, its window and its controls
    asked,   \* the exit codes PostQuitMessage was called with while MessageLoop ran
    menu,    \* a PopupMenu and the AddItem calls in progress on it
    cmw,     \* the activation of CreateMessageOnlyWindow
    style,   \* a WindowStyle / WindowExStyle value, two bit sets, and what the methods made of them
    nid,     \* a ShellNotifyIconW call: its arguments, the OS's answer, its results
    tramp,   \* globalWndProcOnce, globalWndProcPtr and the ensureGlobalWndProc calls in progress
    tray     \* a TrayApp: its done flag, what Close destroyed, the Run and Close calls

loopVars == <<queue, quit, posted, loop>>

\* The state of the dialog, the menu and window creation.
extVars == <<dreg, dlg, asked, menu, cmw>>

\* The state of the style helpers, the notify-icon wrapper, the trampoline
\* address and the tray application.
libVars == <<style, nid, tramp, tray>>

vars == <<reg, muW, muR, call, ui, hist, queue, quit, posted, loop,
          dreg, dlg, asked, menu, cmw, style, nid, tramp, tray>>

\* ---------------------------------------------------------- the Go map
\* proc, ok := wndProcByHWND[hwnd]
MapGet(m, h) == IF h \in DOMAIN m THEN <<m[h], TRUE>> ELSE <<NilProc, FALSE>>

\* A store that forgets the other keys.
PutAlone(m, h, p) == [x \in {h} |-> p]

\* wndProcByHWND[hwnd] = proc
MapPut(m, h, p) == [x \in DOMAIN m \union {h} |-> IF x = h THEN p ELSE m[x]]

\* delete(wndProcByHWND, hwnd)
MapDelete(m, h) == [x \in DOMAIN m \ {h} |-> m[x]]

EmptyMap == [x \in {} |-> NilProc]

\* ------------------------------------------------------ registry bodies
\* A setWndProc that keeps the first registration of a handle.
SetIfAbsent(m, h, p) ==
    IF p = NilProc THEN MapDelete(m, h)
    ELSE IF h \in DOMAIN m THEN m ELSE MapPut(m, h, p)

\* A setWndProc that ignores a nil proc instead of deleting the entry.
SetKeepsNil(m, h, p) == IF p = NilProc THEN m ELSE MapPut(m, h, p)

\* The critical section of setWndProc: a nil proc deletes the entry.
SetWndProcBody(m, h, p) == IF p = NilProc THEN MapDelete(m, h) ELSE MapPut(m, h, p)

\* A deleteWndProc that removes nothing.
DeleteKeeps(m, h) == m

\* A deleteWndProc that clears the map.
DeleteEverything(m, h) == EmptyMap

\* The critical section of deleteWndProc.
DeleteWndProcBody(m, h) == MapDelete(m, h)

\* The critical section of getWndProc.
GetWndProcBody(m, h) == MapGet(m, h)

\* ------------------------------------------------------- registry calls
NoCall == [op |-> "none", pc |-> "none", h |-> 0, p |-> NilProc,
           res |-> <<NilProc, FALSE>>]

\* The frame of a fresh call.
NewCall(op, h, p) ==
    [op |-> op, pc |-> IF op = "get" THEN "rlock" ELSE "lock", h |-> h, p |-> p,
     res |-> <<NilProc, FALSE>>]

\* What a write is called to leave for its handle: the proc, or nil for a
\* removal (deleteWndProc, or setWndProc with a nil proc).
Written(c) == IF c.op = "set" THEN c.p ELSE NilProc

\* ------------------------------------------------------- the trampoline
\* The handler of window_wndproc_test.go, one per proc: 99 for WM_USER
\* from the first, 0 for every other message.
ProcRet(p, m) == IF m = WM_USER THEN 98 + p ELSE 0

\* What a callback may do with the registry while it runs: nothing, or look
\* its own handle up.
CbOps == {"none", "get"}

\* Arguments with wParam and lParam exchanged.
ArgsSwapped(h, in) == <<h, in[1], in[3], in[2]>>

\* The arguments globalWndProc hands to the registered procedure.
CallArgs(h, in) == <<h, in[1], in[2], in[3]>>

\* What globalWndProc returns for what the procedure returned.
TrampolineResult(r) == r

\* A trampoline that never cleans up.
NextNoCleanup(pc, found, m) ==
    CASE pc = "lookup" -> IF found THEN "call" ELSE "def"
      [] OTHER -> "return"

\* A trampoline that cleans up on WM_NCDESTROY whether or not it found a
\* procedure.
NextCleanupUnfound(pc, found, m) ==
    CASE pc = "lookup" -> IF found THEN "call"
                          ELSE IF m = WM_NCDESTROY THEN "cleanup" ELSE "def"
      [] pc = "call" -> IF m = WM_NCDESTROY THEN "cleanup" ELSE "return"
      [] pc = "cleanup" -> IF found THEN "return" ELSE "def"
      [] OTHER -> "return"

\* A trampoline that removes the entry before it calls the procedure.
NextCleanupFirst(pc, found, m) ==
    CASE pc = "lookup" -> IF ~found THEN "def"
                          ELSE IF m = WM_NCDESTROY THEN "cleanup" ELSE "call"
      [] pc = "cleanup" -> "call"
      [] OTHER -> "return"

\* The control flow of globalWndProc: the step that follows the one at pc.
TrampolineNext(pc, found, m) ==
    CASE pc = "lookup" -> IF found THEN "call" ELSE "def"
      [] pc = "call" -> IF m = WM_NCDESTROY THEN "cleanup" ELSE "return"
      [] OTHER -> "return"

\* The activation record of globalWndProc.  Beside the code's locals (h, in,
\* proc, found, ret) it keeps what the run did: calls (invocations of the
\* procedure), args (what the procedure received), def (what DefWindowProcW
\* answered, if it was called), saw (what the callback's own lookup found), cleaned (the
\* trampoline removed the entry), gone (something else removed the entry
\* after the lookup), at (what the last returned write had stored when the
\* lookup read the map), stale (the procedure was replaced, by a setWndProc
\* that has returned, between the lookup and the invocation), n (the
\* registry calls the procedure made for any handle while it ran) and did
\* (the last of the procedure's registry calls that returned, as
\* <<operation, handle, proc>>).
IdleUI == [pc |-> "idle", h |-> 0, in |-> <<0, 0, 0>>, proc |-> NilProc,
           found |-> FALSE, ret |-> 0, calls |-> 0, args |-> <<>>,
           def |-> <<>>, saw |-> "none", cleaned |-> FALSE, gone |-> FALSE,
           at |-> NilProc, stale |-> FALSE, n |-> 0, did |-> <<>>]

\* The UI thread moves to the trampoline step `target`; the cleanup step is a
\* deleteWndProc call, the return leaves the activation's results in place.
UIGoto(u, target) ==
    /\ ui' = [u EXCEPT !.pc = IF target = "return" THEN "idle" ELSE target]
    /\ call' = [call EXCEPT ![UI] = IF target = "cleanup"
                                    THEN NewCall("del", u.h, NilProc)
                                    ELSE NoCall]

\* ------------------------------------------------------------ wndProcMu
\* wndProcMu.RLock(): blocks while a writer holds or awaits the lock.
RLock(t) ==
    /\ call[t].pc = "rlock"
    /\ muW = NoThread
    /\ muR' = muR \union {t}
    /\ call' = [call EXCEPT ![t].pc = "rbody"]
    /\ UNCHANGED <<reg, muW, ui, hist>>
    /\ UNCHANGED loopVars
    /\ UNCHANGED extVars
    /\ UNCHANGED libVars

\* proc, ok := wndProcByHWND[hwnd]
GetBody(t) ==
    /\ call[t].pc = "rbody"
    /\ call' = [call EXCEPT ![t].pc = "runlock",
                            ![t].res = GetWndProcBody(reg, call[t].h)]
    /\ ui' = IF t = UI /\ ui.pc = "lookup"
             THEN [ui EXCEPT !.at = MapGet(hist, ui.h)[1]]
             ELSE ui
    /\ UNCHANGED <<reg, muW, muR, hist>>
    /\ UNCHANGED loopVars
    /\ UNCHANGED extVars
    /\ UNCHANGED libVars

\* An RUnlock that leaves the read lock held.
KeepReader(readers, t) == readers

\* wndProcMu.RUnlock(): the thread is no longer among the readers.
Release(readers, t) == readers \ {t}

\* The deferred wndProcMu.RUnlock() and the return of getWndProc: a worker
\* goes idle, the UI thread goes on with the trampoline, or with the
\* callback that made the call.
RUnlock(t) ==
    LET c == call[t] IN
    /\ c.pc = "runlock"
    /\ muR' = Release(muR, t)
    /\ IF t # UI THEN /\ call' = [call EXCEPT ![t] = NoCall]
                      /\ ui' = ui
       ELSE IF ui.pc = "lookup"
            THEN UIGoto([ui EXCEPT !.proc = c.res[1], !.found = c.res[2]],
                        TrampolineNext("lookup", c.res[2], ui.in[1]))
       ELSE /\ call' = [call EXCEPT ![UI] = NoCall]
            /\ ui' = [ui EXCEPT !.saw = IF c.res[2] THEN "yes" ELSE "no",
                                !.did = <<c.op, c.h, c.p>>]
    /\ UNCHANGED <<reg, muW, hist>>
    /\ UNCHANGED loopVars
    /\ UNCHANGED extVars
    /\ UNCHANGED libVars

\* wndProcMu.Lock(), first half: the writer takes the writer slot, which
\* keeps new readers out.
Lock(t) ==
    /\ call[t].pc = "lock"
    /\ muW = NoThread
    /\ muW' = t
    /\ call' = [call EXCEPT ![t].pc = "wait"]
    /\ UNCHANGED <<reg, muR, ui, hist>>
    /\ UNCHANGED loopVars
    /\ UNCHANGED extVars
    /\ UNCHANGED libVars

\* The lookup of the activation has read the map and the procedure it found
\* has not been invoked yet.
Pending(u) ==
    \/ u.pc = "call"
    \/ u.pc = "lookup" /\ call[UI].pc = "runlock"

\* What a write of another thread for the handle of the running activation
\* means to it.
Observe(u, c, old) ==
    LET p == IF u.pc = "call" THEN u.proc ELSE call[UI].res[1]
        removes == Written(c) = NilProc
    IN [u EXCEPT !.gone = @ \/ (removes /\ (Pending(u) \/ u.pc = "cb")),
                 !.stale = IF ~Pending(u) \/ p = NilProc THEN @
                           ELSE IF ~removes /\ old = p /\ c.p # p THEN TRUE
                           ELSE IF c.p = p THEN FALSE
                           ELSE @]

\* wndProcMu.Lock(), second half, once the readers have left; then the
\* critical section of setWndProc or deleteWndProc, the deferred
\* wndProcMu.Unlock() and the return.  Nothing another thread does can fall
\* between these: the lock is held exclusively throughout.  On the UI
\* thread the call is the trampoline's cleanup, or one the running
\* procedure made.
Write(t) ==
    LET c == call[t]
        old == MapGet(reg, c.h)[1]
    IN /\ c.pc = "wait"
       /\ muR = {}
       /\ reg' = IF c.op = "set" THEN SetWndProcBody(reg, c.h, c.p)
                 ELSE DeleteWndProcBody(reg, c.h)
       /\ muW' = NoThread
       /\ hist' = [hist EXCEPT ![c.h] = Written(c)]
       /\ IF t # UI
          THEN /\ call' = [call EXCEPT ![t] = NoCall]
               /\ ui' = IF c.h = ui.h THEN Observe(ui, c, old) ELSE ui
          ELSE IF ui.pc = "cleanup"
          THEN UIGoto([ui EXCEPT !.cleaned = TRUE],
                      TrampolineNext("cleanup", ui.found, ui.in[1]))
          ELSE /\ call' = [call EXCEPT ![UI] = NoCall]
               /\ ui' = [ui EXCEPT !.did = <<c.op, c.h, c.p>>]
       /\ UNCHANGED muR
       /\ UNCHANGED loopVars
       /\ UNCHANGED extVars
       /\ UNCHANGED libVars

\* ---------------------------------------------------------- the threads
\* A worker thread calls setWndProc, deleteWndProc or getWndProc (one of ops)
\* for one of the handles hs.
WorkerCall(t, ops, hs) ==
    /\ call[t].op = "none"
    /\ \E op \in ops, h \in hs, p \in {NilProc} \union Procs :
          /\ op # "set" => p = NilProc
          /\ call' = [call EXCEPT ![t] = NewCall(op, h, p)]
    /\ UNCHANGED <<reg, muW, muR, ui, hist>>
    /\ UNCHANGED loopVars
    /\ UNCHANGED extVars
    /\ UNCHANGED libVars

\* globalWndProc(h, m, wParam, lParam) starts on the UI thread with its lookup.
UIStart(h, in) ==
    /\ ui' = [IdleUI EXCEPT !.pc = "lookup", !.h = h, !.in = in]
    /\ call' = [call EXCEPT ![UI] = NewCall("get", h, NilProc)]

\* The OS (or a test) calls globalWndProc(h, m, wParam, lParam) on the UI thread.
UIBegin ==
    /\ ui.pc = "idle"
    /\ \E h \in Handles, in \in Inputs : UIStart(h, in)
    /\ UNCHANGED <<reg, muW, muR, hist>>
    /\ UNCHANGED loopVars
    /\ UNCHANGED extVars
    /\ UNCHANGED libVars

\* ret := proc(hwnd, msg, wParam, lParam): the procedure starts running, with
\* no lock held; it may look its own handle up.
UIInvoke ==
    /\ ui.pc = "call"
    /\ \E op \in CbOps :
          /\ ui' = [ui EXCEPT !.pc = "cb", !.calls = @ + 1,
                              !.args = CallArgs(ui.h, ui.in)]
          /\ call' = IF op = "none" THEN call
                     ELSE [call EXCEPT ![UI] = NewCall(op, ui.h, NilProc)]
    /\ UNCHANGED <<reg, muW, muR, hist>>
    /\ UNCHANGED loopVars
    /\ UNCHANGED extVars
    /\ UNCHANGED libVars

\* The running procedure calls setWndProc, deleteWndProc or getWndProc for
\* its own handle or another one (the next).
UICallbackCalls ==
    /\ ui.pc = "cb"
    /\ call[UI].op = "none"
    /\ ui.n < MaxCbCalls
    /\ \E op \in {"set", "del", "get"}, h \in {ui.h, (ui.h % NumHandles) + 1},
          p \in {NilProc} \union Procs :
          /\ op = "set" <=> p # NilProc
          /\ call' = [call EXCEPT ![UI] = NewCall(op, h, p)]
    /\ ui' = [ui EXCEPT !.n = @ + 1]
    /\ UNCHANGED <<reg, muW, muR, hist>>
    /\ UNCHANGED loopVars
    /\ UNCHANGED extVars
    /\ UNCHANGED libVars

\* The procedure returns; the trampoline goes on to the cleanup or returns.
UICallbackReturn ==
    /\ ui.pc = "cb"
    /\ call[UI].op = "none"
    /\ UIGoto([ui EXCEPT !.ret = TrampolineResult(ProcRet(ui.proc, ui.args[2]))],
              TrampolineNext("call", ui.found, ui.in[1]))
    /\ UNCHANGED <<reg, muW, muR, hist>>
    /\ UNCHANGED loopVars
    /\ UNCHANGED extVars
    /\ UNCHANGED libVars

\* return DefWindowProcW(hwnd, msg, wParam, lParam)
UIDefault ==
    /\ ui.pc = "def"
    /\ \E r \in DefResults :
          UIGoto([ui EXCEPT !.ret = r, !.def = <<r>>],
                 TrampolineNext("def", ui.found, ui.in[1]))
    /\ UNCHANGED <<reg, muW, muR, hist>>
    /\ UNCHANGED loopVars
    /\ UNCHANGED extVars
    /\ UNCHANGED libVars

\* ------------------------------------------------------ the message loop
\* A uintptr, as four 16-bit words, most significant first.
Word == 2^16

\* uintptr(exitCode) of an int32: the sign-extended 64-bit pattern.
Uintptr(x) ==
    LET ext == IF x < 0 THEN Word - 1 ELSE 0
    IN <<ext, ext, (x \div Word) % Word, x % Word>>

\* int32(w) of a uintptr: its low 32 bits, read as a signed number.
Int32(w) ==
    IF w[3] >= Word \div 2 THEN (w[3] - Word) * Word + w[4]
    ELSE w[3] * Word + w[4]

\* Exit codes handed to PostQuitMessage.
ExitCodes == {0, 1, -1}

\* The thread's last-error value when windows.GetLastError() reads it after
\* a failed call: ERROR_SUCCESS, or ERROR_INVALID_WINDOW_HANDLE.  The value
\* is read by a call of its own, after the failed one has returned.
LastErrorCodes == {0, 1400}

NilErr == [kind |-> "nil", code |-> 0]

\* windows.GetLastError(): nil when the last-error value is 0.
GetLastError(code) == IF code = 0 THEN NilErr ELSE [kind |-> "errno", code |-> code]

\* GetMessageW: the OS call's result r1 as an int32, and an error for -1 only.
GetMessageW(r1, code) ==
    IF r1 = -1 THEN <<r1, GetLastError(code)>> ELSE <<r1, NilErr>>

NoQuit == [set |-> FALSE, code |-> 0, wParam |-> Uintptr(0)]

\* The MSG struct, and with it which posted message it holds (id, 0 for none
\* and for WM_QUIT) and the exit code a WM_QUIT was posted with.
NoMsg == [id |-> 0, h |-> 0, in |-> <<0, 0, 0>>, wParam |-> Uintptr(0), code |-> 0]

\* got, tr and di list the ids of the messages retrieved, translated and
\* dispatched, in that order.
IdleLoop == [pc |-> "idle", msg |-> NoMsg, ret |-> 1, out |-> <<0, NilErr>>,
             got |-> <<>>, tr |-> <<>>, di |-> <<>>]

\* A loop that takes WM_QUIT for one more message.
LoopNextNoQuit(ret) == IF ret = -1 THEN "returned" ELSE "translate"

\* The body of MessageLoop's for loop after GetMessageW answered ret.
LoopNext(ret) ==
    IF ret = -1 THEN "returned"
    ELSE IF ret = 0 THEN "returned"
    ELSE "translate"

\* What MessageLoop returns.
MessageLoopResult(ret, err, msg) ==
    IF ret = -1 THEN <<0, err>> ELSE <<Int32(msg.wParam), NilErr>>

\* PostMessageW(hwnd, msg, wParam, lParam) succeeds: a message joins the queue.
PostMessageW ==
    /\ loop.pc # "returned"
    /\ posted < MaxPosts
    /\ Len(queue) < MaxQueue
    /\ \E h \in Handles, in \in Inputs :
          queue' = Append(queue, [id |-> posted + 1, h |-> h, in |-> in,
                                  wParam |-> Uintptr(in[2]), code |-> 0])
    /\ posted' = posted + 1
    /\ UNCHANGED <<reg, muW, muR, call, ui, hist, quit, loop>>
    /\ UNCHANGED extVars
    /\ UNCHANGED libVars

\* PostQuitMessage(exitCode): the thread's quit request is set; GetMessageW
\* turns it into WM_QUIT once the queue is empty.
PostQuitMessage ==
    /\ loop.pc # "returned"
    /\ ~quit.set
    /\ \E c \in ExitCodes :
          quit' = [set |-> TRUE, code |-> c, wParam |-> Uintptr(c)]
    /\ UNCHANGED <<reg, muW, muR, call, ui, hist, queue, posted, loop>>
    /\ UNCHANGED extVars
    /\ UNCHANGED libVars

\* MessageLoop is called.
LoopStart ==
    /\ loop.pc = "idle"
    /\ loop' = [loop EXCEPT !.pc = "get"]
    /\ UNCHANGED <<reg, muW, muR, call, ui, hist, queue, quit, posted>>
    /\ UNCHANGED extVars
    /\ UNCHANGED libVars

\* GetMessageW answered (r1, with the last-error value at code) and left m in
\* msg; MessageLoop returns or goes on to translate.
LoopGot(r1, code, m) ==
    LET r == GetMessageW(r1, code)
        nxt == LoopNext(r[1])
    IN loop' = [loop EXCEPT !.pc = nxt, !.msg = m, !.ret = r[1],
                            !.got = IF r1 > 0 THEN Append(@, m.id) ELSE @,
                            !.out = IF nxt = "returned"
                                    THEN MessageLoopResult(r[1], r[2], m)
                                    ELSE @]

\* ret, err := GetMessageW(&msg, 0, 0, 0): the oldest posted message, WM_QUIT
\* (message 18, hwnd 0) when the queue is empty and a quit is pending, or
\* an error; with neither a message nor a quit the call blocks.
LoopGet ==
    /\ loop.pc = "get"
    /\ \/ /\ queue # <<>>
          /\ LoopGot(1, 0, Head(queue))
          /\ queue' = Tail(queue)
          /\ quit' = quit
       \/ /\ queue = <<>>
          /\ quit.set
          /\ LoopGot(0, 0, [NoMsg EXCEPT !.in = <<18, 0, 0>>, !.code = quit.code,
                                         !.wParam = quit.wParam])
          /\ quit' = NoQuit
          /\ queue' = queue
       \/ /\ \E code \in LastErrorCodes : LoopGot(-1, code, loop.msg)
          /\ UNCHANGED <<queue, quit>>
    /\ UNCHANGED <<reg, muW, muR, call, ui, hist, posted>>
    /\ UNCHANGED extVars
    /\ UNCHANGED libVars

\* TranslateMessage(&msg)
LoopTranslate ==
    /\ loop.pc = "translate"
    /\ loop' = [loop EXCEPT !.pc = "dispatch", !.tr = Append(@, loop.msg.id)]
    /\ UNCHANGED <<reg, muW, muR, call, ui, hist, queue, quit, posted>>
    /\ UNCHANGED extVars
    /\ UNCHANGED libVars

\* DispatchMessageW(&msg): the OS calls the window's procedure, the trampoline.
LoopDispatch ==
    /\ loop.pc = "dispatch"
    /\ ui.pc = "idle"
    /\ loop' = [loop EXCEPT !.pc = "dispatching", !.di = Append(@, loop.msg.id)]
    /\ UIStart(loop.msg.h, loop.msg.in)
    /\ UNCHANGED <<reg, muW, muR, hist, queue, quit, posted>>
    /\ UNCHANGED extVars
    /\ UNCHANGED libVars

\* DispatchMessageW returns once the trampoline has; the loop goes round.
LoopDispatched ==
    /\ loop.pc = "dispatching"
    /\ ui.pc = "idle"
    /\ loop' = [loop EXCEPT !.pc = "get"]
    /\ UNCHANGED <<reg, muW, muR, call, ui, hist, queue, quit, posted>>
    /\ UNCHANGED extVars
    /\ UNCHANGED libVars

\* ------------------------------------------------------ the modal dialog
\* The registry variables, which the dialog leaves alone.
regVars == <<reg, muW, muR, call, ui, hist>>

\* The handle the OS gives the dialog window: a fresh one.
DialogHWnd == NumHandles + 1

\* The handles of the two edit controls.
EditHWnd(f) == DialogHWnd + f

\* The child controls, in the order TwoTextInputDialog creates them.
Controls == {"label1", "edit1", "label2", "edit2", "ok", "cancel"}

Edit(f) == IF f = 1 THEN "edit1" ELSE "edit2"

\* defaultValue1, defaultValue2
DefaultTexts == <<"d1", "d2">>

\* What a user types into an edit control.
TypedText == "x"

\* The closure TwoTextInputDialog installs, as a WndProc value.
DlgProc == NumProcs + 1

\* fmt.Errorf("...: %w", err)
WrapErr(what, err) == [kind |-> what, code |-> err.code]

\* The activation of TwoTextInputDialog.  Beside the code's locals (hwnd the
\* dialog handle, result, cancelled, done, old the saved procedure, msg,
\* start) and what the OS holds for it (alive: the dialog window exists;
\* ctrls: the controls that exist; text: the edit controls' texts; now:
\* GetTickCount, a uint32 as two 16-bit words, the high one first) it keeps
\* what the run did: got, tr and di (the id and the window of each message
\* the modal loop, in this call and in earlier ones, retrieved, translated
\* and dispatched, in that order), waited (the milliseconds that passed since startTick
\* was taken), act (the first activation:
\* "ok", "cancel" or "close"), seen (the edit texts at the accept
\* activation), exit (how the modal loop ended), entered (the loop was
\* entered), destroys and dead (DestroyWindow calls for the dialog while it
\* existed and after), before (the registry entry before the install),
\* failed (the controls whose creation failed, and "dialog" if the dialog
\* window's did).
IdleDlg == [pc |-> "idle", hwnd |-> 0, alive |-> FALSE, ctrls |-> {},
            text |-> <<"", "">>, result |-> <<"", "">>, cancelled |-> FALSE,
            done |-> 0, old |-> NilProc, msg |-> NoMsg, start |-> <<0, 0>>,
            now |-> <<0, 0>>, waited |-> 0,
            got |-> <<>>, tr |-> <<>>, di |-> <<>>,
            out |-> <<>>, act |-> "none", seen |-> <<"", "">>, exit |-> "none",
            entered |-> FALSE, destroys |-> 0, dead |-> 0,
            before |-> <<NilProc, FALSE>>, failed |-> {}]

\* A setDialogWndProc that never deletes.
SetDialogKeepsNil(m, h, p) == IF p = NilProc THEN m ELSE MapPut(m, h, p)

\* The critical section of setDialogWndProc; it returns the old procedure,
\* which is OldDialogWndProc.
SetDialogWndProcBody(m, h, p) ==
    IF p = NilProc THEN MapDelete(m, h) ELSE MapPut(m, h, p)

\* old := dialogWndProcs[hwnd]: nil for a handle that is not a key.
OldDialogWndProc(m, h) == IF h \in DOMAIN m THEN m[h] ELSE NilProc

\* getDialogWndProc
GetDialogWndProcBody(m, h) == MapGet(m, h)

\* GetWindowTextW(editHwnd) with the error dropped: "" for a control that
\* does not exist.
GetWindowTextW(d, f) == IF Edit(f) \in d.ctrls THEN d.text[f] ELSE ""

\* The two texts read in the wrong order.
AcceptTextsSwapped(d) == <<GetWindowTextW(d, 2), GetWindowTextW(d, 1)>>

\* text1, text2 as the IDOK branch reads them.
AcceptTexts(d) == <<GetWindowTextW(d, 1), GetWindowTextW(d, 2)>>

\* case WM_DESTROY of the dialog procedure.
OnDestroy(d) == [d EXCEPT !.done = 1]

\* DestroyWindow(hwnd) for the dialog handle: the OS sends WM_DESTROY to the
\* window's procedure (the installed one, if registered), then the window
\* and its children are gone.  For a window that does not exist it fails.
DestroyWindow(d, registered) ==
    IF ~d.alive THEN [d EXCEPT !.dead = @ + 1]
    ELSE LET gone == [d EXCEPT !.alive = FALSE, !.ctrls = {}, !.destroys = @ + 1]
         IN IF registered THEN OnDestroy(gone) ELSE gone

\* A window that is always taken to exist.
AlwaysWindow(d) == TRUE

\* IsWindowW(dialogHWnd)
IsWindowW(d) == d.alive

\* The message posted by PostMessageW(h, m, w, l) from code on the UI thread.
Msg(h, in) == [id |-> 0, h |-> h, in |-> in, wParam |-> Uintptr(0), code |-> 0]

\* id := int32(wParam & 0xFFFF)
CommandID(w) == Uintptr(w)[4]

\* The dialog procedure: the dialog after the call, and what it posted.
DialogProc(d, in) ==
    CASE in[1] = WM_COMMAND /\ CommandID(in[2]) = IDOK ->
           [d |-> [d EXCEPT !.result = AcceptTexts(d), !.done = 1],
            post |-> <<Msg(d.hwnd, <<WM_CLOSE, 0, 0>>)>>]
      [] in[1] = WM_COMMAND /\ CommandID(in[2]) = IDCANCEL ->
           [d |-> [d EXCEPT !.cancelled = TRUE, !.done = 1],
            post |-> <<Msg(d.hwnd, <<WM_CLOSE, 0, 0>>)>>]
      [] in[1] = WM_CLOSE -> [d |-> DestroyWindow(d, TRUE), post |-> <<>>]
      [] in[1] = WM_DESTROY -> [d |-> OnDestroy(d), post |-> <<>>]
      [] OTHER -> [d |-> d, post |-> <<>>]

\* What an activation of the dialog is: accept, cancel, close, or none.
Activation(in) ==
    CASE in[1] = WM_COMMAND /\ CommandID(in[2]) = IDOK -> "ok"
      [] in[1] = WM_COMMAND /\ CommandID(in[2]) = IDCANCEL -> "cancel"
      [] in[1] = WM_CLOSE -> "close"
      [] OTHER -> "none"

\* What the callback of a menu item of the application does: the first item
\* calls TrayApp.Exit, the next one TrayApp.ShowDialog.
AppCallback(id) == IF id = FirstMenuID THEN "exit" ELSE "dialog"

\* The menu commands of the application's window (handle 1).
AppCommands == {<<WM_COMMAND, FirstMenuID, 0>>, <<WM_COMMAND, FirstMenuID + 1, 0>>}

\* elapsed > n for a uint32 elapsed and an n below 2^16.
Above(elapsed, n) == elapsed[1] > 0 \/ elapsed[2] > n

\* The head of the modal loop: leave on the done flag, then on the timeout.
DlgLoopNext(done, elapsed) ==
    IF done # 0 THEN "done"
    ELSE IF Above(elapsed, timeoutMs) THEN "timeout"
    ELSE "get"

\* A difference that stops at zero instead of wrapping.
ElapsedNoWrap(now, start) ==
    IF now[1] < start[1] \/ (now[1] = start[1] /\ now[2] < start[2]) THEN <<0, 0>>
    ELSE <<now[1] - start[1] - (IF now[2] < start[2] THEN 1 ELSE 0),
           (now[2] - start[2]) % Word>>

\* GetTickCount() - startTick on uint32: the difference modulo 2^32.
Elapsed(now, start) ==
    LET borrow == IF now[2] < start[2] THEN 1 ELSE 0
    IN <<(now[1] - start[1] - borrow) % Word, (now[2] - start[2]) % Word>>

\* The uint32 tick counter ms milliseconds (fewer than 2^16) after t.
TickAfter(t, ms) == <<(t[1] + ((t[2] + ms) \div Word)) % Word, (t[2] + ms) % Word>>

\* TwoTextInputDialog returns (text1, text2, cancelled, err).
DlgReturns(d, out) == [d EXCEPT !.pc = "returned", !.out = out]

\* The dialog's variables beside dlg, which a step of its own code leaves alone.
dlgRest == <<queue, quit, posted, loop, dreg, asked, menu, cmw>>

\* TwoTextInputDialog is entered.
DlgEnter == dlg' = [IdleDlg EXCEPT !.pc = "module", !.now = dlg.now,
                                   !.got = dlg.got, !.tr = dlg.tr, !.di = dlg.di]

\* TwoTextInputDialog is called from the UI thread, outside any message loop.
DlgCall ==
    /\ dlg.pc = "idle"
    /\ loop.pc = "idle"
    /\ DlgEnter
    /\ UNCHANGED regVars
    /\ UNCHANGED libVars
    /\ UNCHANGED dlgRest

\* hInstance, err := getModuleHandleCurrentProcess(): a handle, or zero with
\* the last error, which is nil when the last-error value reads 0.
DlgModule ==
    /\ dlg.pc = "module"
    /\ \/ dlg' = [dlg EXCEPT !.pc = "window"]
       \/ \E code \in LastErrorCodes :
             LET err == GetLastError(code)
             IN dlg' = IF err # NilErr
                       THEN DlgReturns(dlg, <<"", "", FALSE,
                                       WrapErr("failed to get module handle", err)>>)
                       ELSE [dlg EXCEPT !.pc = "window"]
    /\ UNCHANGED regVars
    /\ UNCHANGED libVars
    /\ UNCHANGED dlgRest

\* dialogHWnd, err := CreateWindowExW("dialog_input", ...): the new window's
\* handle, or zero with the last error, which is nil when it reads 0.
DlgCreateWindow ==
    /\ dlg.pc = "window"
    /\ \/ dlg' = [dlg EXCEPT !.pc = "controls", !.hwnd = DialogHWnd, !.alive = TRUE]
       \/ \E code \in LastErrorCodes :
             LET err == GetLastError(code)
                 d == [dlg EXCEPT !.failed = {"dialog"}]
             IN dlg' = IF err # NilErr
                       THEN DlgReturns(d, <<"", "", FALSE,
                                       WrapErr("failed to create dialog", err)>>)
                       ELSE [d EXCEPT !.pc = "controls", !.hwnd = 0]
    /\ UNCHANGED regVars
    /\ UNCHANGED libVars
    /\ UNCHANGED dlgRest

\* The six CreateWindowExW calls for the controls, their errors dropped: any
\* of them may fail; none succeeds as a child of a window that is not there.
\* The edit controls start with the default values.
DlgCreateControls(outcomes) ==
    /\ dlg.pc = "controls"
    /\ \E made \in IF dlg.alive THEN outcomes ELSE {{}} :
          /\ dlg' = [dlg EXCEPT !.pc = "install", !.ctrls = made,
                                !.failed = @ \cup (Controls \ made),
                                !.text = [f \in {1, 2} |->
                                            IF Edit(f) \in made THEN DefaultTexts[f]
                                            ELSE ""]]
    /\ UNCHANGED regVars
    /\ UNCHANGED libVars
    /\ UNCHANGED dlgRest

\* oldProc := setDialogWndProc(dialogHWnd, func ...), the deferred restore is
\* noted, the window is shown and startTick := GetTickCount().
DlgInstall ==
    /\ dlg.pc = "install"
    /\ dreg' = SetDialogWndProcBody(dreg, dlg.hwnd, DlgProc)
    /\ dlg' = [dlg EXCEPT !.pc = "top", !.old = OldDialogWndProc(dreg, dlg.hwnd),
                          !.before = GetDialogWndProcBody(dreg, dlg.hwnd),
                          !.start = dlg.now, !.waited = 0, !.entered = TRUE]
    /\ UNCHANGED regVars
    /\ UNCHANGED libVars
    /\ UNCHANGED <<queue, quit, posted, loop, asked, menu, cmw>>

\* for atomic.LoadInt32(&done) == 0 { elapsed := GetTickCount() - startTick;
\* if elapsed > timeoutMs { break } ...
DlgTop ==
    /\ dlg.pc = "top"
    /\ LET nxt == DlgLoopNext(dlg.done, Elapsed(dlg.now, dlg.start))
       IN dlg' = IF nxt = "get" THEN [dlg EXCEPT !.pc = "get"]
                 ELSE [dlg EXCEPT !.pc = "cleanup", !.exit = nxt]
    /\ UNCHANGED regVars
    /\ UNCHANGED libVars
    /\ UNCHANGED dlgRest

\* A modal loop that ends on the first message it retrieves.
DlgAfterGetDrops(ret) ==
    IF ret = 0 THEN "quit" ELSE IF ret = -1 THEN "error" ELSE "done"

\* A modal loop that takes WM_QUIT for one more message.
DlgAfterGetNoQuit(ret) == IF ret = -1 THEN "error" ELSE "dispatch"

\* if ret == 0 { break }; if ret == -1 { break }
DlgAfterGet(ret) ==
    IF ret = 0 THEN "quit" ELSE IF ret = -1 THEN "error" ELSE "dispatch"

\* GetMessageW answered r1 and left m in msg.
DlgGot(r1, code, m) ==
    LET nxt == DlgAfterGet(GetMessageW(r1, code)[1])
        got == IF r1 > 0 THEN Append(dlg.got, <<m.id, m.h>>) ELSE dlg.got
    IN dlg' = IF nxt = "dispatch"
              THEN [dlg EXCEPT !.pc = "dispatch", !.msg = m, !.got = got]
              ELSE [dlg EXCEPT !.pc = "cleanup", !.msg = m, !.got = got,
                               !.exit = nxt]

\* ret, _ := GetMessageW(&msg, 0, 0, 0) in the modal loop: as in MessageLoop,
\* the oldest message, WM_QUIT, or an error; with neither a message nor a
\* quit the call blocks.
DlgGet ==
    /\ dlg.pc = "get"
    /\ \/ /\ queue # <<>>
          /\ DlgGot(1, 0, Head(queue))
          /\ queue' = Tail(queue)
          /\ quit' = quit
       \/ /\ queue = <<>>
          /\ quit.set
          /\ DlgGot(0, 0, [NoMsg EXCEPT !.in = <<18, 0, 0>>, !.code = quit.code,
                                        !.wParam = quit.wParam])
          /\ quit' = NoQuit
          /\ queue' = queue
       \/ /\ \E code \in LastErrorCodes : DlgGot(-1, code, dlg.msg)
          /\ UNCHANGED <<queue, quit>>
    /\ UNCHANGED regVars
    /\ UNCHANGED libVars
    /\ UNCHANGED <<posted, loop, dreg, asked, menu, cmw>>

\* PostQuitMessage(exitCode) called by code on the UI thread.
QuitWith(c) == [set |-> TRUE, code |-> c, wParam |-> Uintptr(c)]

\* TranslateMessage(&msg); DispatchMessageW(&msg) in the modal loop: the
\* message goes to its window's procedure.  The dialog's window runs the
\* installed procedure, an edit control takes its new text, the
\* application's window runs the menu item's callback (Exit calls
\* PostQuitMessage(0)); a message for a window that is gone is dropped.
DlgDispatch ==
    /\ dlg.pc = "dispatch"
    /\ LET m == dlg.msg
           toDialog == m.h = dlg.hwnd /\ dlg.alive
                       /\ GetDialogWndProcBody(dreg, m.h) = <<DlgProc, TRUE>>
           toEdit(f) == m.h = EditHWnd(f) /\ Edit(f) \in dlg.ctrls
                        /\ m.in[1] = WM_SETTEXT
           toApp == m.h = 1 /\ m.in[1] = WM_COMMAND
                    /\ AppCallback(CommandID(m.in[2])) = "exit"
           r == DialogProc(dlg, m.in)
           first == dlg.act = "none" /\ Activation(m.in) # "none"
           logged(d) == [d EXCEPT !.pc = "top",
                                  !.tr = Append(@, <<m.id, m.h>>),
                                  !.di = Append(@, <<m.id, m.h>>)]
       IN /\ dlg' = IF toDialog
                    THEN [logged(r.d) EXCEPT
                                     !.act = IF first THEN Activation(m.in) ELSE @,
                                     !.seen = IF first THEN dlg.text ELSE @]
                    ELSE IF \E f \in {1, 2} : toEdit(f)
                    THEN [logged(dlg) EXCEPT
                                     !.text = [f \in {1, 2} |->
                                                 IF toEdit(f) THEN TypedText ELSE @[f]]]
                    ELSE logged(dlg)
          /\ queue' = IF toDialog THEN queue \o r.post ELSE queue
          /\ quit' = IF toApp THEN QuitWith(0) ELSE quit
          /\ asked' = IF toApp /\ loop.pc \notin {"idle", "returned"}
                      THEN Append(asked, 0) ELSE asked
    /\ UNCHANGED regVars
    /\ UNCHANGED libVars
    /\ UNCHANGED <<posted, loop, dreg, menu, cmw>>

\* if IsWindowW(dialogHWnd) { DestroyWindow(dialogHWnd) }
DlgDestroy ==
    /\ dlg.pc = "cleanup"
    /\ dlg' = IF IsWindowW(dlg)
              THEN [DestroyWindow(dlg, GetDialogWndProcBody(dreg, dlg.hwnd)[2])
                      EXCEPT !.pc = "uninstall"]
              ELSE [dlg EXCEPT !.pc = "uninstall"]
    /\ UNCHANGED regVars
    /\ UNCHANGED libVars
    /\ UNCHANGED dlgRest

\* setDialogWndProc(dialogHWnd, nil); return result1, result2, cancelled,
\* nil; and on the way out the deferred setDialogWndProc(dialogHWnd, oldProc).
DlgReturn ==
    /\ dlg.pc = "uninstall"
    /\ dreg' = SetDialogWndProcBody(SetDialogWndProcBody(dreg, dlg.hwnd, NilProc),
                                    dlg.hwnd, dlg.old)
    /\ dlg' = DlgReturns(dlg, <<dlg.result[1], dlg.result[2], dlg.cancelled, NilErr>>)
    /\ UNCHANGED regVars
    /\ UNCHANGED libVars
    /\ UNCHANGED <<queue, quit, posted, loop, asked, menu, cmw>>

\* The dialog is on screen and its modal loop runs.
DlgOpen == dlg.pc \in {"top", "get", "dispatch"}

\* What the user and the application's menu can post while the dialog is
\* open: a click on a button that exists, the close box, typing into an edit
\* control that exists, a command of the application's menu.
UserMessages(cmds) ==
    {Msg(dlg.hwnd, <<WM_COMMAND, IDOK, 0>>) : x \in {c \in dlg.ctrls : c = "ok"}}
    \cup {Msg(dlg.hwnd, <<WM_COMMAND, IDCANCEL, 0>>) : x \in {c \in dlg.ctrls : c = "cancel"}}
    \cup {Msg(dlg.hwnd, <<WM_CLOSE, 0, 0>>) : x \in {a \in {dlg.alive} : a}}
    \cup {Msg(EditHWnd(f), <<WM_SETTEXT, 0, 1>>) :
             f \in {g \in {1, 2} : Edit(g) \in dlg.ctrls}}
    \cup {Msg(1, c) : c \in cmds}

\* The user acts on the open dialog: a message joins the thread's queue.
UserPosts(cmds) ==
    /\ DlgOpen
    /\ posted < MaxPosts
    /\ Len(queue) < MaxQueue
    /\ \E m \in UserMessages(cmds) : queue' = Append(queue, [m EXCEPT !.id = posted + 1])
    /\ posted' = posted + 1
    /\ UNCHANGED regVars
    /\ UNCHANGED libVars
    /\ UNCHANGED <<quit, loop, dreg, dlg, asked, menu, cmw>>

\* Time passes while the dialog is open: GetTickCount moves on, up to the
\* timeout and then past it.
Tick ==
    /\ DlgOpen
    /\ dlg.waited <= timeoutMs
    /\ LET ms == IF dlg.waited = 0 THEN timeoutMs ELSE 1
       IN dlg' = [dlg EXCEPT !.now = TickAfter(@, ms), !.waited = @ + ms]
    /\ UNCHANGED regVars
    /\ UNCHANGED libVars
    /\ UNCHANGED dlgRest

\* ------------------------------------------------------------ PopupMenu
\* The number of AddItem calls made on the menu.
MaxItems == 3

\* No AddItem call in progress on a thread.
NoAdd == [pc |-> "none", cb |-> NilProc]

\* A new PopupMenu (NewPopupMenu), and no AddItem call in progress: mu the
\* menu's mutex, nextID and items its fields, calls the AddItem call of
\* each thread, ret what the calls returned, in the order they returned
\* (t the thread, id and err the values, got the id the call took).
IdleMenu == [mu |-> NoThread, nextID |-> FirstMenuID, items |-> EmptyMap,
             calls |-> [t \in Workers |-> NoAdd], ret |-> <<>>]

\* What an AddItem action leaves alone.
menuRest == <<queue, quit, posted, loop, dreg, dlg, asked, cmw>>

\* An increment that does not count.
KeepID(x) == x

\* m.nextID++ on an int32.
Inc32(x) ==
    LET MaxInt32 == 2^30 + (2^30 - 1)
    IN IF x = MaxInt32 THEN -MaxInt32 - 1 ELSE x + 1

\* m.AddItem(label, callback) is called on thread t, with a callback or nil.
AddItemCall(t) ==
    /\ menu.calls[t].pc = "none"
    /\ Len(menu.ret) + Cardinality({u \in Workers : menu.calls[u].pc # "none"}) < MaxItems
    /\ \E cb \in {NilProc, 1} :
          menu' = [menu EXCEPT !.calls[t] = [pc |-> "lock", cb |-> cb]]
    /\ UNCHANGED regVars
    /\ UNCHANGED libVars
    /\ UNCHANGED menuRest

\* m.mu.Lock()
AddItemLock(t) ==
    /\ menu.calls[t].pc = "lock"
    /\ menu.mu = NoThread
    /\ menu' = [menu EXCEPT !.mu = t, !.calls[t].pc = "body"]
    /\ UNCHANGED regVars
    /\ UNCHANGED libVars
    /\ UNCHANGED menuRest

\* The critical section of AddItem: the id is taken and nextID moves on;
\* AppendMenuW succeeds, and the callback, if any, is stored under the id,
\* or fails; then the deferred m.mu.Unlock() and the return of (id, nil) or
\* (0, err).
AddItemBody(t) ==
    /\ menu.calls[t].pc = "body"
    /\ menu.mu = t
    /\ \E appended \in BOOLEAN :
          LET id == menu.nextID
              cb == menu.calls[t].cb
          IN menu' = [menu EXCEPT
                        !.nextID = Inc32(id),
                        !.items = IF appended /\ cb # NilProc THEN MapPut(@, id, cb)
                                  ELSE @,
                        !.mu = NoThread,
                        !.calls[t] = NoAdd,
                        !.ret = Append(@, [t |-> t, got |-> id,
                                           id |-> IF appended THEN id ELSE 0,
                                           err |-> IF appended THEN NilErr
                                                   ELSE [kind |-> "AppendMenuW",
                                                         code |-> 0]])]
    /\ UNCHANGED regVars
    /\ UNCHANGED libVars
    /\ UNCHANGED menuRest

\* ------------------------------------------- CreateMessageOnlyWindow
\* ERROR_CLASS_ALREADY_EXISTS
ClassAlreadyExists == 1410

\* The class names CreateMessageOnlyWindow is called with: none, a usable
\* one, and one with a NUL inside.
EmbeddedNul == "a<NUL>b"

ClassNames == {"", "cls", EmbeddedNul}

\* windows.UTF16PtrFromString(s): EINVAL for a string with a NUL inside.
UTF16PtrFromString(s) ==
    IF s = EmbeddedNul THEN [kind |-> "EINVAL", code |-> 22] ELSE NilErr

\* registerClassExW: the class atom, or 1 when the class exists already, or
\* zero with the last error, which is nil when the last-error value reads 0.
registerClassExW(r1, code) ==
    IF r1 # 0 THEN <<r1, NilErr>>
    ELSE IF code = ClassAlreadyExists THEN <<1, NilErr>>
    ELSE <<0, GetLastError(code)>>

\* CreateWindowExW: the handle, or zero with the last error.
CreateWindowExW(r1, code) ==
    IF r1 = 0 THEN <<0, GetLastError(code)>> ELSE <<r1, NilErr>>

\* No CreateMessageOnlyWindow call in progress, no window created yet.
\* className and proc are the arguments, hwnd the local, out what the call
\* returned; before is the registry when the call was made, failed the
\* first step the OS or the conversion failed at, made the number of
\* windows created.
IdleCmw == [pc |-> "idle", className |-> "", proc |-> NilProc, hwnd |-> 0,
            out |-> <<0, NilErr>>, before |-> EmptyMap, failed |-> "none",
            made |-> 0]

\* What a step of CreateMessageOnlyWindow other than the registration leaves
\* alone.
cmwRest == <<dreg, dlg, asked, menu>>

\* CreateMessageOnlyWindow returns (hwnd, err).
CmwReturns(c, out) == [c EXCEPT !.pc = "returned", !.out = out]

\* The call goes on to pc, or returns (0, err) when err is not nil; what
\* failed is kept.
CmwAfter(c, err, what, pc) ==
    LET f == [c EXCEPT !.failed = IF @ = "none" THEN what ELSE @]
    IN IF err # NilErr THEN CmwReturns(f, <<0, err>>) ELSE [f EXCEPT !.pc = pc]

\* CreateMessageOnlyWindow(className, windowName, proc) is called on thread
\* 1; an empty class name is refused at once.
CmwCall ==
    /\ cmw.pc \in {"idle", "returned"}
    /\ cmw.made < NumHandles
    /\ call[1] = NoCall
    /\ \E cn \in ClassNames, p \in {NilProc} \union Procs :
          LET c == [IdleCmw EXCEPT !.className = cn, !.proc = p, !.before = reg,
                                   !.made = cmw.made]
          IN cmw' = IF cn = ""
                    THEN CmwAfter(c, [kind |-> "className is empty", code |-> 0],
                                  "className", "module")
                    ELSE [c EXCEPT !.pc = "module"]
    /\ UNCHANGED regVars
    /\ UNCHANGED libVars
    /\ UNCHANGED loopVars
    /\ UNCHANGED cmwRest

\* hInstance, err := getModuleHandleCurrentProcess()
CmwModule ==
    /\ cmw.pc = "module"
    /\ \/ cmw' = [cmw EXCEPT !.pc = "utf16"]
       \/ \E code \in LastErrorCodes :
             cmw' = CmwAfter(cmw, GetLastError(code), "module", "utf16")
    /\ UNCHANGED regVars
    /\ UNCHANGED libVars
    /\ UNCHANGED loopVars
    /\ UNCHANGED cmwRest

\* classNamePtr, err := windows.UTF16PtrFromString(className)
CmwClassName ==
    /\ cmw.pc = "utf16"
    /\ LET err == UTF16PtrFromString(cmw.className)
       IN cmw' = IF err = NilErr THEN [cmw EXCEPT !.pc = "class"]
                 ELSE CmwAfter(cmw, err, "utf16", "class")
    /\ UNCHANGED regVars
    /\ UNCHANGED libVars
    /\ UNCHANGED loopVars
    /\ UNCHANGED cmwRest

\* _, err = registerClassExW(...): a class that exists already is no failure.
CmwRegisterClass ==
    /\ cmw.pc = "class"
    /\ \/ cmw' = [cmw EXCEPT !.pc = "window"]
       \/ \E code \in LastErrorCodes \union {ClassAlreadyExists} :
             LET r == registerClassExW(0, code)
             IN cmw' = IF r[1] # 0 THEN [cmw EXCEPT !.pc = "window"]
                       ELSE CmwAfter(cmw, r[2], "class", "window")
    /\ UNCHANGED regVars
    /\ UNCHANGED libVars
    /\ UNCHANGED loopVars
    /\ UNCHANGED cmwRest

\* hwnd, err := CreateWindowExW(..., HWND_MESSAGE, ...): the next handle, or
\* a failure.
CmwCreateWindow ==
    /\ cmw.pc = "window"
    /\ \/ LET r == CreateWindowExW(cmw.made + 1, 0)
          IN cmw' = [cmw EXCEPT !.pc = "register", !.hwnd = r[1], !.made = @ + 1]
       \/ \E code \in LastErrorCodes :
             LET r == CreateWindowExW(0, code)
             IN cmw' = CmwAfter([cmw EXCEPT !.hwnd = r[1]], r[2], "window", "register")
    /\ UNCHANGED regVars
    /\ UNCHANGED libVars
    /\ UNCHANGED loopVars
    /\ UNCHANGED cmwRest

\* if proc != nil { setWndProc(hwnd, proc) }: setWndProc is entered, or
\* skipped.
CmwRegister ==
    /\ cmw.pc = "register"
    /\ IF cmw.proc # NilProc
       THEN /\ call' = [call EXCEPT ![1] = NewCall("set", cmw.hwnd, cmw.proc)]
            /\ cmw' = [cmw EXCEPT !.pc = "registering"]
       ELSE /\ call' = call
            /\ cmw' = [cmw EXCEPT !.pc = "registering"]
    /\ UNCHANGED <<reg, muW, muR, ui, hist>>
    /\ UNCHANGED loopVars
    /\ UNCHANGED cmwRest
    /\ UNCHANGED libVars

\* return hwnd, nil, once setWndProc has returned.
CmwReturn ==
    /\ cmw.pc = "registering"
    /\ call[1] = NoCall
    /\ cmw' = CmwReturns(cmw, <<cmw.hwnd, NilErr>>)
    /\ UNCHANGED regVars
    /\ UNCHANGED libVars
    /\ UNCHANGED loopVars
    /\ UNCHANGED cmwRest

\* --------------------------------------------- WindowStyle, WindowExStyle
\* The bits of a uint32 that the styles are tried with: the lowest, WS_SYSMENU
\* (0x00080000), WS_VISIBLE (0x10000000) and the highest.  A value of
\* WindowStyleBits or WindowExStyleBits is the set of its bits that are set.
StyleBits == {0, 19, 28, 31}

\* No style under test.
IdleStyle == [pc |-> "idle", kind |-> "none", s |-> {}, a |-> {}, b |-> {},
              with |-> {}, without |-> {}]

\* WindowStyle{Bits: s.Bits | bits}, and the same for WindowExStyle.
With(s, bits) == s \cup bits

\* A Without that clears every bit.
WithoutAll(s, bits) == {}

\* WindowStyle{Bits: s.Bits &^ bits}, and the same for WindowExStyle.
Without(s, bits) == s \ bits

\* s.Bits&bits == bits
Has(s, bits) == (s \cap bits) = bits

\* s.With(a) and s.Without(a) are computed.
StyleApply ==
    /\ style.pc = "in"
    /\ style' = [style EXCEPT !.pc = "out", !.with = With(style.s, style.a),
                              !.without = Without(style.s, style.a)]
    /\ UNCHANGED <<regVars, loopVars, extVars, nid, tramp, tray>>

\* ------------------------------------------------------ ShellNotifyIconW
\* unsafe.Sizeof(NOTIFYICONDATAW{}) for a pointer size of 4 or 8 bytes: the
\* fields in order, each aligned to its size, the whole to the pointer size.
SizeofNotifyIconData(ptr) ==
    LET Align(n, k) == ((n + k - 1) \div k) * k
        hwnd == Align(4, ptr) + ptr
        hicon == Align(hwnd + 4 + 4 + 4, ptr) + ptr
        guid == hicon + 256 + 4 + 4 + 512 + 4 + 128 + 4 + 16
    IN Align(Align(guid, ptr) + ptr, ptr)

\* A wrapper that always writes the size.
AlwaysFill(isNil, cb, size) == size

\* if lpData != nil && lpData.CbSize == 0 { lpData.CbSize = sizeof }
FillCbSize(isNil, cb, size) == IF ~isNil /\ cb = 0 THEN size ELSE cb

\* What ShellNotifyIconW returns for the OS's answer r1 and the last-error
\* value: nil on success; on failure the last error, which is nil, and so
\* different from ERROR_SUCCESS, when the value reads 0.
NotifyResult(r1, code) == IF r1 # 0 THEN NilErr ELSE GetLastError(code)

\* No ShellNotifyIconW call under test.
IdleNotify == [pc |-> "idle", dwMessage |-> 0, ptr |-> 8, isNil |-> FALSE,
               entry |-> 0, cb |-> 0, r1 |-> 0, code |-> 0, out |-> NilErr]

\* ShellNotifyIconW(dwMessage, lpData) runs: CbSize is filled in if need be,
\* the OS is called and answers, the error is returned.
NotifyCall ==
    /\ nid.pc = "in"
    /\ nid' = [nid EXCEPT !.pc = "out",
                          !.cb = FillCbSize(nid.isNil, nid.entry,
                                            SizeofNotifyIconData(nid.ptr)),
                          !.out = NotifyResult(nid.r1, nid.code)]
    /\ UNCHANGED <<regVars, loopVars, extVars, style, tramp, tray>>

\* --------------------------------------------------- ensureGlobalWndProc
\* The number of ensureGlobalWndProc calls made.
MaxEnsures == 3

\* The addresses syscall.NewCallback may return: never zero.
CallbackAddrs == {4096, 8192}

\* globalWndProcOnce (done and its mutex mu) and globalWndProcPtr before the
\* first call; calls is the step each thread's call is at, ret what the
\* calls returned (thread, address), created the number of NewCallback
\* calls, slow the number of calls that took the slow path of Once.Do.
IdleOnce == [done |-> 0, mu |-> NoThread, ptr |-> 0, created |-> 0, slow |-> 0,
             calls |-> [t \in Workers |-> "none"], ret |-> <<>>]

\* A Once that runs the function whenever the slow path is reached.
OnceRunsAgain(done) == TRUE

\* doSlow, under the mutex: if o.done.Load() == 0 { defer o.done.Store(1); f() }
OnceRuns(done) == done = 0

\* One step of ensureGlobalWndProc on thread t: the call; the fast path of
\* globalWndProcOnce.Do; the mutex of the slow path; the slow path itself
\* with the unlock; the return of globalWndProcPtr.
EnsureStep(t) ==
    LET pc == tramp.calls[t]
        busy == Cardinality({u \in Workers : tramp.calls[u] # "none"})
    IN /\ \/ /\ pc = "none"
             /\ Len(tramp.ret) + busy < MaxEnsures
             /\ tramp' = [tramp EXCEPT !.calls[t] = "fast"]
          \/ /\ pc = "fast"
             /\ tramp' = [tramp EXCEPT !.calls[t] = IF tramp.done = 0 THEN "lock"
                                                    ELSE "ret"]
          \/ /\ pc = "lock"
             /\ tramp.mu = NoThread
             /\ tramp' = [tramp EXCEPT !.calls[t] = "slow", !.mu = t, !.slow = @ + 1]
          \/ /\ pc = "slow"
             /\ \E addr \in CallbackAddrs :
                   tramp' = IF OnceRuns(tramp.done)
                            THEN [tramp EXCEPT !.calls[t] = "ret", !.mu = NoThread,
                                               !.ptr = addr, !.created = @ + 1,
                                               !.done = 1]
                            ELSE [tramp EXCEPT !.calls[t] = "ret", !.mu = NoThread]
          \/ /\ pc = "ret"
             /\ tramp' = [tramp EXCEPT !.calls[t] = "none",
                                       !.ret = Append(@, <<t, tramp.ptr>>)]
       /\ UNCHANGED <<regVars, loopVars, extVars, style, nid, tray>>

\* ---------------------------------------------------------------- TrayApp
\* The number of Run and Close calls made on the TrayApp.
MaxTrayCalls == 4

\* A TrayApp after NewTrayApp: done is its flag; destroyed counts what Close
\* destroyed (menu, icon, window), late how many times a Close that found
\* done set destroyed anything; running is the Run call of each thread
\* ("none", "loop" once the check let it through, "in" inside MessageLoop)
\* and sawDone what its check read; ret is what the
\* calls returned: the operation, whether done was set when it took the
\* lock, whether it entered MessageLoop, and the values.
IdleTray == [done |-> FALSE, destroyed |-> [menu |-> 0, icon |-> 0, window |-> 0],
             late |-> 0, running |-> [t \in Workers |-> "none"],
             sawDone |-> [t \in Workers |-> FALSE], ret |-> <<>>]

\* A Run that never looks at done.
RunNeverRefuses(done) == FALSE

\* if app.done { return 1, fmt.Errorf("app already running or closed") }
RunRefuses(done) == done

\* What a call of the TrayApp returned.
TrayRet(op, closed, entered, out) ==
    [op |-> op, closed |-> closed, entered |-> entered, out |-> out]

\* app.Run() on thread t takes the lock, reads done and unlocks: it returns
\* (1, error) or goes on to MessageLoop.
RunCheck(t) ==
    /\ tray.running[t] = "none"
    /\ Len(tray.ret) + Cardinality({u \in Workers : tray.running[u] # "none"})
          < MaxTrayCalls
    /\ tray' = IF RunRefuses(tray.done)
               THEN [tray EXCEPT !.ret = Append(@, TrayRet("run", tray.done, FALSE,
                                    <<1, [kind |-> "app already running or closed",
                                          code |-> 0]>>))]
               ELSE [tray EXCEPT !.running[t] = "loop", !.sawDone[t] = tray.done]
    /\ UNCHANGED <<regVars, loopVars, extVars, style, nid, tramp>>

\* return MessageLoop(): the loop is entered, and returns what it returns
\* when the thread's quit arrives.
RunLoop(t) ==
    /\ \/ /\ tray.running[t] = "loop"
          /\ tray' = [tray EXCEPT !.running[t] = "in"]
       \/ /\ tray.running[t] = "in"
          /\ \E c \in ExitCodes :
                tray' = [tray EXCEPT !.running[t] = "none",
                                     !.ret = Append(@, TrayRet("run", tray.sawDone[t],
                                                               TRUE, <<c, NilErr>>))]
    /\ UNCHANGED <<regVars, loopVars, extVars, style, nid, tramp>>

\* app.Close() on thread t, all of it under app.mu: nil at once when done is
\* set; otherwise done is set, the menu destroyed, and tray.Close() removes
\* the icon, destroys the menu it holds and the window, and its
\* DestroyWindow's error is returned.
TrayClose(t) ==
    /\ tray.running[t] = "none"
    /\ Len(tray.ret) + Cardinality({u \in Workers : tray.running[u] # "none"})
          < MaxTrayCalls
    /\ \E code \in {-1} \union LastErrorCodes :
          tray' = IF tray.done
                  THEN [tray EXCEPT !.ret = Append(@, TrayRet("close", TRUE, FALSE,
                                                              <<NilErr>>))]
                  ELSE [tray EXCEPT
                          !.done = TRUE,
                          !.late = IF tray.done THEN @ + 1 ELSE @,
                          !.destroyed = [menu |-> @.menu + 2, icon |-> @.icon + 1,
                                         window |-> @.window + 1],
                          !.ret = Append(@, TrayRet("close", FALSE, FALSE,
                                     <<IF code = -1 THEN NilErr
                                       ELSE GetLastError(code)>>))]
    /\ UNCHANGED <<regVars, loopVars, extVars, style, nid, tramp>>

RegistryStep(t) ==
    \/ RLock(t)
    \/ GetBody(t)
    \/ RUnlock(t)
    \/ Lock(t)
    \/ Write(t)

\* The state after package initialisation, with the dialog's tick counter at
\* now and the style and notify-icon calls under test as given.
InitWith(now, st, n) ==
    /\ reg = EmptyMap
    /\ muW = NoThread
    /\ muR = {}
    /\ call = [t \in Threads |-> NoCall]
    /\ ui = IdleUI
    /\ hist = [h \in Handles |-> NilProc]
    /\ queue = <<>>
    /\ quit = NoQuit
    /\ posted = 0
    /\ loop = IdleLoop
    /\ dreg = EmptyMap
    /\ dlg = [IdleDlg EXCEPT !.now = now]
    /\ asked = <<>>
    /\ menu = IdleMenu
    /\ cmw = IdleCmw
    /\ style = st
    /\ nid = n
    /\ tramp = IdleOnce
    /\ tray = IdleTray

Init == InitWith(IdleDlg.now, IdleStyle, IdleNotify)

\* The UI thread dispatches while one other thread registers and removes.
Next ==
    \/ WorkerCall(1, {"set", "del"}, Handles)
    \/ \E t \in {UI, 1} : RegistryStep(t)
    \/ UIBegin
    \/ UIInvoke
    \/ UICallbackReturn
    \/ UIDefault

Spec == Init /\ [][Next]_vars

\* The registry a map from the handles f names to their procs.
RegistryOf(f) == [h \in {x \in DOMAIN f : f[x] # NilProc} |-> f[h]]

\* Threads calling the registry concurrently, for any handle.
NextReg ==
    \E t \in Workers :
        \/ WorkerCall(t, {"set", "del", "get"}, Handles)
        \/ RegistryStep(t)

SpecReg == Init /\ [][NextReg]_vars

\* The handles a thread works on when the threads keep to handles of their own.
Owned(t) == {h \in Handles : h % NumThreads = t % NumThreads}

\* Threads calling the registry concurrently, each for its own handles.
NextDisjoint ==
    \E t \in Workers :
        \/ WorkerCall(t, {"set", "del", "get"}, Owned(t))
        \/ RegistryStep(t)

\* sync.RWMutex does not starve a goroutine that waits for the lock: one that
\* could take it again and again does take it.
SpecDisjoint ==
    Init /\ [][NextDisjoint]_vars /\ \A t \in Workers : SF_vars(RegistryStep(t))

\* The windows created before MessageLoop starts: the first handle's window
\* is registered, the others are not (or are destroyed already).
Created == [h \in Handles |-> IF h = 1 THEN 1 ELSE NilProc]

\* MessageLoop on the UI thread, with windows registered before it starts.
InitLoop ==
    /\ reg = RegistryOf(Created)
    /\ hist = Created
    /\ muW = NoThread
    /\ muR = {}
    /\ call = [t \in Threads |-> NoCall]
    /\ ui = IdleUI
    /\ queue = <<>>
    /\ quit = NoQuit
    /\ posted = 0
    /\ loop = IdleLoop
    /\ dreg = EmptyMap
    /\ dlg = IdleDlg
    /\ asked = <<>>
    /\ menu = IdleMenu
    /\ cmw = IdleCmw
    /\ style = IdleStyle
    /\ nid = IdleNotify
    /\ tramp = IdleOnce
    /\ tray = IdleTray

NextLoop ==
    \/ PostMessageW
    \/ PostQuitMessage
    \/ LoopStart
    \/ LoopGet
    \/ LoopTranslate
    \/ LoopDispatch
    \/ LoopDispatched
    \/ RegistryStep(UI)
    \/ UIInvoke
    \/ UICallbackReturn
    \/ UIDefault

SpecLoop == InitLoop /\ [][NextLoop]_vars

\* The Exit command of the application's menu.
ExitCommand == {<<WM_COMMAND, FirstMenuID, 0>>}

\* TwoTextInputDialog called on the UI thread, the user acting on it.
NextDialog ==
    \/ DlgCall
    \/ DlgModule
    \/ DlgCreateWindow
    \/ DlgCreateControls(SUBSET Controls)
    \/ DlgInstall
    \/ DlgTop
    \/ DlgGet
    \/ DlgDispatch
    \/ DlgDestroy
    \/ DlgReturn
    \/ UserPosts(ExitCommand)
    \/ Tick

SpecDialog == Init /\ [][NextDialog]_vars


\* A command of the application's menu is posted to its window (handle 1)
\* while MessageLoop runs; the one that opens the dialog only while no dialog
\* is open or about to be.
AppPosts ==
    /\ loop.pc \notin {"idle", "returned"}
    /\ posted < MaxPosts
    /\ Len(queue) < MaxQueue
    /\ \E c \in AppCommands :
          /\ AppCallback(CommandID(c[2])) = "dialog" =>
                /\ dlg.pc \in {"idle", "returned"}
                /\ \A i \in 1..Len(queue) : queue[i].in # c
          /\ queue' = Append(queue, [Msg(1, c) EXCEPT !.id = posted + 1])
    /\ posted' = posted + 1
    /\ UNCHANGED regVars
    /\ UNCHANGED libVars
    /\ UNCHANGED <<quit, loop, dreg, dlg, asked, menu, cmw>>

\* GetMessageW in MessageLoop when the retrieval does not fail.
LoopGetOk == LoopGet /\ loop'.ret # -1

\* DispatchMessageW(&msg) in MessageLoop for the application's window: the
\* tray procedure runs the callback of the menu item, which calls
\* PostQuitMessage(0) (TrayApp.Exit) or TwoTextInputDialog
\* (TrayApp.ShowDialog); a message for a window that is gone is dropped.
LoopDispatchApp ==
    /\ loop.pc = "dispatch"
    /\ LET m == loop.msg
           cb == IF m.h = 1 /\ m.in[1] = WM_COMMAND
                 THEN AppCallback(CommandID(m.in[2])) ELSE "none"
       IN /\ loop' = [loop EXCEPT !.pc = IF cb = "dialog" THEN "dispatching" ELSE "get",
                                  !.di = Append(@, m.id)]
          /\ quit' = IF cb = "exit" THEN QuitWith(0) ELSE quit
          /\ asked' = IF cb = "exit" THEN Append(asked, 0) ELSE asked
          /\ IF cb = "dialog" THEN DlgEnter ELSE dlg' = dlg
    /\ UNCHANGED regVars
    /\ UNCHANGED libVars
    /\ UNCHANGED <<queue, posted, dreg, menu, cmw>>

\* TwoTextInputDialog returned to the callback, the callback to the tray
\* procedure and DispatchMessageW to MessageLoop, which goes round.
LoopDialogReturned ==
    /\ loop.pc = "dispatching"
    /\ dlg.pc = "returned"
    /\ loop' = [loop EXCEPT !.pc = "get"]
    /\ UNCHANGED regVars
    /\ UNCHANGED libVars
    /\ UNCHANGED <<queue, quit, posted, dreg, dlg, asked, menu, cmw>>

\* TrayApp.Run: MessageLoop on the UI thread, the menu's callbacks calling
\* TrayApp.Exit and TrayApp.ShowDialog; retrievals and control creations
\* that succeed.
NextQuit ==
    \/ LoopStart
    \/ AppPosts
    \/ LoopGetOk
    \/ LoopTranslate
    \/ LoopDispatchApp
    \/ LoopDialogReturned
    \/ DlgModule
    \/ DlgCreateWindow
    \/ DlgCreateControls({Controls})
    \/ DlgInstall
    \/ DlgTop
    \/ DlgGet
    \/ DlgDispatch
    \/ DlgDestroy
    \/ DlgReturn
    \/ UserPosts(ExitCommand)
    \/ Tick

SpecQuit == InitLoop /\ [][NextQuit]_vars


\* CreateMessageOnlyWindow called again and again on one thread.
NextCreate ==
    \/ CmwCall
    \/ CmwModule
    \/ CmwClassName
    \/ CmwRegisterClass
    \/ CmwCreateWindow
    \/ CmwRegister
    \/ Lock(1)
    \/ Write(1)
    \/ CmwReturn

SpecCreate == Init /\ [][NextCreate]_vars


\* Threads adding items to one PopupMenu concurrently.
NextMenu ==
    \E t \in Workers :
        \/ AddItemCall(t)
        \/ AddItemLock(t)
        \/ AddItemBody(t)

SpecMenu == Init /\ [][NextMenu]_vars


\* The values the style methods are tried with.
InitStyle ==
    \E k \in {"WindowStyle", "WindowExStyle"}, s, a, b \in SUBSET StyleBits :
        InitWith(IdleDlg.now,
                 [IdleStyle EXCEPT !.pc = "in", !.kind = k, !.s = s, !.a = a, !.b = b],
                 IdleNotify)

SpecStyle == InitStyle /\ [][StyleApply]_vars

\* The calls ShellNotifyIconW is tried with: NIM_ADD, NIM_MODIFY or
\* NIM_DELETE, a 32-bit or 64-bit build, a nil or non-nil lpData with some
\* CbSize, and the OS's answer.
InitNotify ==
    \E m \in {0, 1, 2}, ptr \in {4, 8}, isNil \in BOOLEAN,
       cb \in {0, 1, 123, 956, 976}, r1 \in {0, 1}, code \in LastErrorCodes :
        /\ isNil => cb = 0
        /\ InitWith(IdleDlg.now, IdleStyle,
                    [IdleNotify EXCEPT !.pc = "in", !.dwMessage = m,
                                       !.ptr = ptr, !.isNil = isNil,
                                       !.entry = cb, !.cb = cb, !.r1 = r1,
                                       !.code = code])

SpecNotify == InitNotify /\ [][NotifyCall]_vars


\* Threads calling ensureGlobalWndProc concurrently.
SpecOnce == Init /\ [][\E t \in Workers : EnsureStep(t)]_vars

\* Threads calling Run and Close on one TrayApp.
NextTray ==
    \E t \in Workers :
        \/ RunCheck(t)
        \/ RunLoop(t)
        \/ TrayClose(t)

SpecTray == Init /\ [][NextTray]_vars


\* TwoTextInputDialog called with the tick counter at zero, at its highest
\* value, just below a carry of the low word, and one timeout before it
\* wraps; creations of the controls that succeed.
SpecTick ==
    /\ \E now \in {<<0, 0>>, <<Word - 1, Word - 1>>, <<0, Word - 1>>,
                   <<Word - 1, Word - timeoutMs>>} :
          InitWith(now, IdleStyle, IdleNotify)
    /\ [][\/ DlgCall
          \/ DlgModule
          \/ DlgCreateWindow
          \/ DlgCreateControls({Controls})
          \/ DlgInstall
          \/ DlgTop
          \/ DlgGet
          \/ DlgDispatch
          \/ DlgDestroy
          \/ DlgReturn
          \/ UserPosts({})
          \/ Tick]_vars


\* The trampoline dispatching to the window that is registered at the start,
\* whose procedures call the registry themselves, for this handle or another,
\* while another thread registers and removes procedures for the window.
SpecReent ==
    /\ InitLoop
    /\ [][\/ UIBegin /\ ui'.h = 1
          \/ UIInvoke
          \/ UICallbackCalls
          \/ UICallbackReturn
          \/ UIDefault
          \/ RegistryStep(UI)
          \/ RegistryStep(1)
          \/ WorkerCall(1, {"set"}, {1})]_vars


\* --------------------------------------------------------------- claims
\* The registry holds for every handle what the last returned write for it
\* was called to store.
RegistryHoldsLastWrite ==
    \A h \in Handles : GetWndProcBody(reg, h) = <<hist[h], hist[h] # NilProc>>

\* A step of the UI thread.
UIStep == ui'.pc # ui.pc \/ call'[UI] # call[UI]

\* C1: when globalWndProc returns from dispatching WM_NCDESTROY to a handle
\* whose procedure it found, it has invoked that procedure exactly once and
\* has removed the entry, and getWndProc for the handle reports not-found.
C1_DestroyInvokesOnceThenUnregisters ==
    [][(ui.pc # "idle" /\ ui'.pc = "idle" /\ ui'.found /\ ui'.in[1] = WM_NCDESTROY)
         => /\ ui'.calls = 1
            /\ ui'.cleaned
            /\ ~GetWndProcBody(reg', ui'.h)[2]]_vars

C1_Witness ==
    /\ ui.pc = "idle"
    /\ ui.found
    /\ ui.in[1] = WM_NCDESTROY
    /\ ui.calls = 1
    /\ ui.cleaned
    /\ ~GetWndProcBody(reg, ui.h)[2]

\* C2: globalWndProc invokes the procedure it found exactly once, with the
\* four inputs (h, m, w, l) it was called with, and returns what the procedure
\* returned: 99 from the first handler for message 0x0400.
C2_ForwardsInputsAndResult ==
    /\ (ui.pc \in {"call", "def"}) => ui.calls = 0
    /\ (ui.pc \in {"cb", "cleanup"} \/ (ui.pc = "idle" /\ ui.found))
         => /\ ui.calls = 1
            /\ ui.args = <<ui.h, ui.in[1], ui.in[2], ui.in[3]>>
    /\ ((ui.pc = "cleanup" \/ ui.pc = "idle") /\ ui.found)
         => /\ ui.ret = ProcRet(ui.proc, ui.in[1])
            /\ (ui.proc = 1 /\ ui.in[1] = WM_USER) => ui.ret = 99

C2_Witness ==
    /\ ui.pc = "idle"
    /\ ui.found
    /\ ui.proc = 1
    /\ ui.in = <<WM_USER, 1, 2>>
    /\ ui.calls = 1
    /\ ui.ret = 99

\* C3: a step changes what getWndProc reports for a handle only if it is the
\* write of a setWndProc or deleteWndProc called for that very handle.
C3_RegistryIsolation ==
    [][\A h \in Handles :
          GetWndProcBody(reg', h) # GetWndProcBody(reg, h)
            => \E t \in Workers : /\ call[t].pc = "wait"
                                  /\ call[t].h = h
                                  /\ call'[t].pc = "none"]_vars

C3_Witness ==
    /\ Cardinality(DOMAIN reg) >= 2
    /\ \E h1 \in DOMAIN reg, h2 \in DOMAIN reg : reg[h1] # reg[h2]
    /\ \E t \in Workers : call[t].pc = "wait" /\ call[t].op = "del"

\* C4, as claimed: the registry holds the last registration, and the
\* procedure a returned setWndProc has replaced is not invoked afterwards.
C4_ReplacedNeverInvoked ==
    /\ RegistryHoldsLastWrite
    /\ ui.pc = "cb" => ~ui.stale

\* C4, amended: the registry holds exactly the last registration, and the
\* procedure a dispatch invokes is the one registered when its lookup read
\* the registry; a procedure replaced before that lookup is not invoked,
\* one replaced after it still is, once.
C4_LastWriteWinsAtLookup ==
    /\ RegistryHoldsLastWrite
    /\ (ui.pc \in {"call", "cb"}) => (ui.proc = ui.at /\ ui.proc # NilProc)
    /\ (ui.pc = "cb" /\ ui.stale) => ui.calls = 1

C4_Witness ==
    /\ ui.pc = "cb"
    /\ ui.stale
    /\ ui.calls = 1
    /\ GetWndProcBody(reg, ui.h)[2]
    /\ GetWndProcBody(reg, ui.h)[1] # ui.proc

\* C5: for a handle whose lookup found nothing globalWndProc returns what
\* DefWindowProcW answered, WM_NCDESTROY included, calls no procedure, does
\* no cleanup, and none of its steps changes the registry.
C5_UnregisteredFallsThrough ==
    /\ []((ui.pc = "idle" /\ ui.h # 0 /\ ~ui.found)
            => /\ ui.def # <<>>
               /\ ui.ret = ui.def[1]
               /\ ui.calls = 0
               /\ ~ui.cleaned)
    /\ [][(UIStep /\ ~ui'.found) => reg' = reg]_vars

C5_Witness ==
    /\ ui.pc = "idle"
    /\ ~ui.found
    /\ ui.in[1] = WM_NCDESTROY
    /\ ui.def # <<>>
    /\ ui.ret = 1
    /\ reg # EmptyMap

\* C6: while the procedure handles WM_NCDESTROY the trampoline has not yet
\* removed the entry: the handle is still registered, and the procedure's
\* own lookup finds it, unless another thread removed it meanwhile.
C6_CallThenCleanup ==
    (ui.pc = "cb" /\ ui.in[1] = WM_NCDESTROY)
      => /\ ~ui.cleaned
         /\ ~ui.gone => GetWndProcBody(reg, ui.h)[2]
         /\ ui.saw = "no" => ui.gone

C6_Witness ==
    /\ ui.pc = "cb"
    /\ ui.in[1] = WM_NCDESTROY
    /\ ui.saw = "yes"
    /\ ~ui.cleaned
    /\ ~ui.gone

\* C7: with every thread on handles of its own, the registry holds for each
\* handle what its last returned write stored, a lookup reads just that, and
\* every call that has started returns: no thread stays in a call for ever.
C7_DisjointNoLossNoDeadlock ==
    /\ [](\A t \in Workers : \A h \in Owned(t) :
            /\ GetWndProcBody(reg, h) = <<hist[h], hist[h] # NilProc>>
            /\ (call[t].pc = "runlock" /\ call[t].h = h)
                 => call[t].res = <<hist[h], hist[h] # NilProc>>)
    /\ \A t \in Workers : []<>(call[t].op = "none")

C7_Witness ==
    /\ call[1].pc = "wait"
    /\ call[1].op = "del"
    /\ call[2].pc = "lock"
    /\ call[2].op = "set"
    /\ \A h \in Owned(1) \union Owned(2) : h \in DOMAIN reg

\* C8: a getWndProc reports what the last setWndProc or removal that returned
\* before its read was called to store: found with p after setWndProc(h, p),
\* not-found after a removal.
C8_Linearizable ==
    \A t \in Workers :
        call[t].pc = "runlock"
          => call[t].res = <<hist[call[t].h], hist[call[t].h] # NilProc>>

C8_Witness ==
    \E t \in Workers, u \in Workers :
        /\ call[t].pc = "runlock"
        /\ call[t].res = <<2, TRUE>>
        /\ call[u].pc = "runlock"
        /\ call[u].res = <<NilProc, FALSE>>
        /\ hist[call[u].h] = NilProc
        /\ call[u].h \notin DOMAIN reg

\* C9: MessageLoop has returned only after GetMessageW answered 0 or -1; for
\* 0 it returns the exit code PostQuitMessage was called with and a nil
\* error; the messages it translated and dispatched are exactly those
\* GetMessageW retrieved before, in order, and no others.
C9_LoopTerminals ==
    /\ loop.pc = "returned" => loop.ret \in {0, -1}
    /\ (loop.pc = "returned" /\ loop.ret = 0) => loop.out = <<loop.msg.code, NilErr>>
    /\ loop.pc \in {"get", "returned", "idle"} => (loop.tr = loop.got /\ loop.di = loop.got)
    /\ loop.pc = "returned" => (ui.pc = "idle" /\ call[UI].op = "none")

C9_Witness ==
    /\ loop.pc = "returned"
    /\ loop.ret = 0
    /\ loop.out = <<-1, NilErr>>
    /\ loop.di = <<1, 2>>

\* C10, as claimed: when GetMessageW answers -1 MessageLoop returns a
\* non-nil error, having translated and dispatched only the messages
\* retrieved before.
C10_RetrievalErrorPropagated ==
    (loop.pc = "returned" /\ loop.ret = -1)
      => /\ loop.out[2] # NilErr
         /\ loop.tr = loop.got
         /\ loop.di = loop.got

\* C11: once PostQuitMessage(exitCode) has been called on the UI thread
\* while MessageLoop runs, the loop goes on to return exitCode with a nil
\* error: it is not left waiting for a message with no quit pending, and
\* when it has returned it returned (exitCode, nil).
C11_QuitMakesLoopReturn ==
    asked # <<>> =>
        IF loop.pc = "returned" THEN loop.out = <<asked[1], NilErr>>
        ELSE ~(loop.pc = "get" /\ queue = <<>> /\ ~quit.set)

C13_CancelAndCloseCancelled ==
    (dlg.pc = "returned" /\ dlg.act \in {"cancel", "close"}) =>
        (dlg.out[3] = TRUE /\ dlg.out[4] = NilErr)

\* C14: when no accept, cancel or close has happened and the modal loop
\* exits on the timeout, TwoTextInputDialog returns cancelled = true with a
\* nil error.
C14_TimeoutIsCancelled ==
    (dlg.pc = "returned" /\ dlg.exit = "timeout" /\ dlg.act = "none") =>
        (dlg.out[3] = TRUE /\ dlg.out[4] = NilErr)

\* C15: once the timeout has elapsed TwoTextInputDialog goes on to return,
\* even when no message arrives: it is not left waiting in the retrieval
\* step with the timeout passed and nothing to retrieve.
C15_ReturnsAfterTimeout ==
    (dlg.entered /\ dlg.waited > timeoutMs) =>
        ~(dlg.pc = "get" /\ queue = <<>> /\ ~quit.set)

\* C16: when TwoTextInputDialog returns, on every exit path of the modal
\* loop, the dialog-procedure registry entry for the dialog's handle is what
\* it was before the install; for a fresh handle it is absent.
C16_InstallRestoreRoundTrip ==
    (dlg.pc = "returned" /\ dlg.entered) =>
        GetDialogWndProcBody(dreg, dlg.hwnd) = dlg.before

\* The dialog ran on a fresh handle, installed its procedure, left its loop
\* on the quit sentinel and returned with the handle absent again.
C16_Witness ==
    /\ dlg.pc = "returned"
    /\ dlg.entered
    /\ dlg.exit = "quit"
    /\ dlg.hwnd = DialogHWnd
    /\ dlg.before = <<NilProc, FALSE>>
    /\ DialogHWnd \notin DOMAIN dreg

\* C17: whichever way the modal loop exits, the dialog window no longer
\* exists when TwoTextInputDialog returns, it was destroyed once, and no
\* destroy was issued for a window already destroyed.
C17_DefensiveCleanup ==
    (dlg.pc = "returned" /\ dlg.entered) =>
        /\ ~dlg.alive
        /\ dlg.dead = 0
        /\ dlg.hwnd = DialogHWnd => dlg.destroys = 1

\* The window was destroyed inside the loop by the close control, and the
\* cleanup after the loop did not destroy it again.
C17_Witness ==
    /\ dlg.pc = "returned"
    /\ dlg.act = "close"
    /\ dlg.exit = "done"
    /\ dlg.destroys = 1
    /\ dlg.dead = 0
    /\ ~dlg.alive

\* C18: if creation of the dialog window or of any child control fails,
\* TwoTextInputDialog does not enter the modal loop and returns an error,
\* with no window, no control and no registry entry left.
C18_CreationFailureAborts ==
    dlg.failed # {} =>
        /\ ~dlg.entered
        /\ dlg.pc \notin {"install", "top", "get", "dispatch"}
        /\ dlg.pc = "returned" =>
              /\ dlg.out[4] # NilErr
              /\ ~dlg.alive
              /\ dlg.ctrls = {}
              /\ dreg = EmptyMap

\* C19: CreateMessageOnlyWindow registers the procedure only after the
\* window was created: when nothing failed it returns the new handle with a
\* nil error and getWndProc of that handle yields the given procedure; when
\* the class name, the module handle, the class registration or the window
\* creation failed it returns a zero handle with an error and the registry
\* is as it was.
C19_CreateRegistersOnSuccessOnly ==
    cmw.pc = "returned" =>
        IF cmw.failed = "none"
        THEN /\ cmw.out[1] # 0
             /\ cmw.out[2] = NilErr
             /\ cmw.proc # NilProc =>
                   GetWndProcBody(reg, cmw.out[1]) = <<cmw.proc, TRUE>>
        ELSE /\ cmw.out[1] = 0
             /\ cmw.out[2] # NilErr
             /\ reg = cmw.before

C21_WithWithoutHas ==
    style.pc = "out" =>
        /\ Has(style.with, style.a)
        /\ style.without \cap style.a = {}
        /\ (style.a \cap style.b = {}) =>
              (Has(style.without, style.b) = Has(style.s, style.b))

\* The methods ran on a style with WS_SYSMENU and WS_VISIBLE set; WS_VISIBLE
\* was cleared and WS_SYSMENU, disjoint from it, remained.
C21_Witness ==
    /\ style.pc = "out"
    /\ style.s = {19, 28}
    /\ style.a = {28}
    /\ style.b = {19}
    /\ style.without = {19}
    /\ Has(style.without, style.b)

\* C22: ShellNotifyIconW sets lpData.CbSize to the size of NOTIFYICONDATAW
\* exactly when it was 0 on entry and leaves a non-zero CbSize unchanged,
\* whatever the OS call answers.
C22_FillsCbSizeWhenZero ==
    (nid.pc = "out" /\ ~nid.isNil) =>
        nid.cb = IF nid.entry = 0 THEN SizeofNotifyIconData(nid.ptr) ELSE nid.entry

\* The OS call failed, CbSize was 0 on entry and holds the 64-bit size.
C22_Witness ==
    /\ nid.pc = "out"
    /\ ~nid.isNil
    /\ nid.entry = 0
    /\ nid.r1 = 0
    /\ nid.ptr = 8
    /\ nid.cb = 976

\* C24: under any number of concurrent first calls to ensureGlobalWndProc
\* the native callback is created a single time, and every call returns
\* that same non-zero address.
C24_TrampolineCreatedOnce ==
    /\ tramp.created <= 1
    /\ \A i \in 1..Len(tramp.ret) :
          /\ tramp.ret[i][2] # 0
          /\ tramp.ret[i][2] = tramp.ptr
          /\ tramp.created = 1

\* Two threads raced through the slow path of the first call, a third call
\* took the fast path; one callback was created and all returned it.
C24_Witness ==
    /\ Len(tramp.ret) = 3
    /\ tramp.slow = 2
    /\ tramp.created = 1
    /\ tramp.ret[1][1] # tramp.ret[2][1]
    /\ tramp.ret[3][2] = tramp.ret[1][2]

\* C30: after the first Close every later Close returns nil and destroys
\* nothing again, and a Run returns (1, error) without entering the message
\* loop; before Close a Run enters the message loop, whether or not Run was
\* called earlier.
C30_ClosedIsTerminal ==
    /\ tray.late = 0
    /\ tray.destroyed.icon <= 1
    /\ tray.destroyed.window <= 1
    /\ \A i \in 1..Len(tray.ret) :
          LET r == tray.ret[i]
          IN /\ (r.op = "close" /\ r.closed) => r.out = <<NilErr>>
             /\ (r.op = "run" /\ r.closed) =>
                   (~r.entered /\ r.out[1] = 1 /\ r.out[2] # NilErr)
             /\ (r.op = "run" /\ ~r.closed) => r.entered
    /\ \A t \in Workers : tray.running[t] # "none" => ~tray.sawDone[t]

\* A Run returned from the loop, a second Run was let in, then the app was
\* closed, closed again, and a Run after that was refused.
C30_Witness ==
    /\ Len(tray.ret) = 4
    /\ tray.ret[1].op = "run" /\ tray.ret[1].entered
    /\ tray.ret[2].op = "close" /\ ~tray.ret[2].closed
    /\ tray.ret[3].op = "close" /\ tray.ret[3].closed
    /\ tray.ret[4].op = "run" /\ tray.ret[4].closed /\ tray.ret[4].out[1] = 1
    /\ tray.destroyed.window = 1

\* C29: the modal loop's elapsed time is the unsigned 32-bit difference of
\* the current and the start tick, which is the time that passed also when
\* the counter wrapped in between, and the loop exits by timeout exactly
\* when, at an iteration check with done unset, it exceeds 30000.
C29_ElapsedModulo32 ==
    [][(dlg.pc = "top" /\ dlg'.pc # "top") =>
          /\ Elapsed(dlg.now, dlg.start) = <<0, dlg.waited>>
          /\ (dlg'.exit = "timeout") <=> (dlg.done = 0 /\ dlg.waited > timeoutMs)]_vars

\* The loop was entered one tick before the counter wrapped and left by
\* timeout with the counter wrapped to 30000.
C29_Witness ==
    /\ dlg.exit = "timeout"
    /\ dlg.start = <<Word - 1, Word - 1>>
    /\ dlg.now = <<0, timeoutMs>>
    /\ dlg.waited = timeoutMs + 1

C26_LoopsDispatchInOrder ==
    LET Prefix(a, b) == Len(a) <= Len(b) /\ a = SubSeq(b, 1, Len(a))
        Numbered(l) == SelectSeq(l, LAMBDA id : id # 0)
        Ids(l) == Numbered([i \in 1..Len(l) |-> l[i][1]])
        Rising(l) == \A i, j \in 1..Len(l) : i < j => l[i] < l[j]
        Values(l) == {l[i] : i \in 1..Len(l)}
    IN /\ Prefix(loop.di, loop.tr) /\ Prefix(loop.tr, loop.got)
       /\ Len(loop.got) <= Len(loop.di) + 1
       /\ loop.pc \in {"idle", "get", "returned"} => loop.di = loop.got
       /\ Prefix(dlg.di, dlg.tr) /\ Prefix(dlg.tr, dlg.got)
       /\ Len(dlg.got) <= Len(dlg.di) + 1
       /\ dlg.pc # "dispatch" => dlg.di = dlg.got
       /\ Rising(Numbered(loop.got)) /\ Rising(Ids(dlg.got))
       /\ Values(Numbered(loop.got)) \cap Values(Ids(dlg.got)) = {}
       /\ Values(Numbered(loop.got)) \cup Values(Ids(dlg.got))
             = (1..posted) \ {queue[i].id : i \in 1..Len(queue)}

\* While the dialog was open and MessageLoop inside DispatchMessageW, the
\* modal loop dispatched a message for the application's window and then
\* one for the dialog's.
C26_Witness ==
    /\ loop.pc = "dispatching"
    /\ dlg.pc = "top"
    /\ Len(dlg.di) = 2
    /\ dlg.di[1][2] = 1
    /\ dlg.di[2][2] = dlg.hwnd
    /\ dlg.di[1][1] < dlg.di[2][1]
    /\ Len(loop.di) = 1

\* C23: the UI thread holds no registry lock when the trampoline invokes a
\* procedure nor while the procedure runs outside its own registry calls; a
\* procedure that calls setWndProc, deleteWndProc or getWndProc for its own
\* handle or another is never stuck (as long as a registry call is in
\* progress some registry call can take a step), its call returns into the
\* running procedure, and what it wrote is what the registry holds for that
\* handle when the call returns.
C23_NoLockAcrossCallback ==
    [][/\ (ui.pc \in {"call", "cb"} /\ call[UI].pc \in {"none", "lock", "rlock"}) =>
              (UI \notin muR /\ muW # UI)
       /\ (\E t \in Threads : call[t].op # "none") =>
              ENABLED (\E t \in Threads : RegistryStep(t))
       /\ (ui.pc = "cb" /\ call[UI].op # "none" /\ call'[UI].op = "none") =>
              /\ ui'.pc = "cb"
              /\ UI \notin muR' /\ muW' # UI
              /\ call[UI].op \in {"set", "del"} =>
                    MapGet(reg', call[UI].h)
                       = <<Written(call[UI]), Written(call[UI]) # NilProc>>]_vars

\* The running procedure of window 1 registered a procedure for the other
\* handle; the call returned, the registry holds what it wrote, and the
\* procedure runs on.
C23_Witness ==
    /\ ui.pc = "cb"
    /\ call[UI].op = "none"
    /\ ui.h = 1
    /\ ui.did = <<"set", 2, 2>>
    /\ MapGet(reg, 2) = <<2, TRUE>>

\* C27: the cleanup the trampoline runs after dispatching WM_NCDESTROY to a
\* registered handle removes the entry the registry holds for the handle at
\* that moment, whatever it is, and nothing else, and then the trampoline
\* returns; afterwards the handle gets an entry again only by a setWndProc
\* that returns after the cleanup.
C27_CleanupRemovesCurrentEntry ==
    [][/\ (ui.pc = "cleanup" /\ ui'.pc # "cleanup") =>
              /\ ui'.pc = "idle"
              /\ ui.h \notin DOMAIN reg'
              /\ reg' = MapDelete(reg, ui.h)
       /\ (ui.cleaned /\ ui' = ui /\ ui.h \notin DOMAIN reg /\ ui.h \in DOMAIN reg') =>
              \E t \in Threads :
                  /\ call[t].op = "set" /\ call[t].h = ui.h /\ call[t].pc = "wait"
                  /\ call'[t].op = "none"
       /\ (ui.pc = "cb" /\ ui'.pc # "cb" /\ ui.in[1] = WM_NCDESTROY) =>
              ui'.pc = "cleanup"]_vars

\* WM_NCDESTROY was dispatched to a registered handle; between the lookup
\* and the invocation another thread replaced its procedure, the procedure
\* that ran registered a third one for the handle, and the trampoline has
\* returned with the handle absent from the registry.
C27_Witness ==
    /\ ui.pc = "idle"
    /\ ui.in[1] = WM_NCDESTROY
    /\ ui.cleaned
    /\ ui.stale
    /\ ui.proc = 1
    /\ ui.did = <<"set", ui.h, 2>>
    /\ ui.h \notin DOMAIN reg

\* C25: in every state, a handle with an entry in the window registry or in
\* the dialog registry belongs to a window that has not processed its
\* final-destroy notification: no handle of the window registry is one
\* whose procedure has run for WM_NCDESTROY in the activation at hand, and
\* the dialog registry holds at most the handle of the dialog, whose window
\* exists.
C25_EntryImpliesLiveWindow ==
    /\ \A h \in DOMAIN reg :
          ~(/\ h = ui.h
            /\ ui.in[1] = WM_NCDESTROY
            /\ ui.calls = 1
            /\ ui.pc \in {"cleanup", "idle"}
            /\ hist[h] = ui.proc)
    /\ \A h \in DOMAIN dreg : h = dlg.hwnd /\ dlg.alive

====
